---- MODULE Spec2Model ----
(***************************************************************************)
(* Build pipeline of thecharmedcardinal.com: the nine build-script         *)
(* variants kept in the repository (scripts/build.js and the unnamed       *)
(* parts), modelled as one state machine parameterised by `variant`.       *)
(*                                                                         *)
(*   discovery -> per-listing scrape -> image materialisation ->           *)
(*   data/products.json -> product pages -> category/shop/home pages ->    *)
(*   sitemap.xml -> completion banner / failure banner and exit status     *)
(***************************************************************************)
EXTENDS Integers, Sequences, FiniteSets, TLC

(* ------------------------------ bounds --------------------------------- *)

\* longest feed (number of <item>s) / longest listing map the model explores
MaxListings == 2

\* longest title, in characters and words, given to the string functions
MaxTitleLen == 3

\* longest feed description the string functions are tried on, in atoms
MaxHtmlLen == 3

\* most listing anchors the model puts on one rendered shop page
MaxAnchors == 2

\* the longest run of characters without a space in a description to clamp
MaxRun == 145

(* ------------------------- program constants --------------------------- *)

\* fetchListingUrlsFromShop(maxPages = 5)
MaxPages == 5

\* node-fetch's redirect limit (its `follow` option is left at the default)
FetchMaxRedirects == 20

Null == "null"

\* typed "nothing" values: no slug, no local file (the renderer's placeholder),
\* no product, no download
NoSlug == [base |-> "", id |-> 0]
NoFile == [slug |-> NoSlug, ext |-> "none"]
NoProduct ==
    [id |-> 0, path |-> "", title |-> "", type |-> "", image |-> Null, slug |-> NoSlug,
     local |-> NoFile]
NoCards == [flags |-> << >>, patterns |-> << >>]
NoDl == [url |-> Null, dest |-> NoFile, hops |-> 0, existed |-> FALSE, stage |-> "none"]

\* network operations: the feed request, a shop page navigation, a listing
\* fetch or navigation, an image download
FeedOp == [kind |-> "feed", n |-> 0]
NavOp(p) == [kind |-> "shop page", n |-> p]
ListingOp(i) == [kind |-> "listing", n |-> i]
ImageOp(i) == [kind |-> "image", n |-> i]

\* resources a build holds open: the headless browser, one of its pages,
\* the write stream of an image file
Browser == [kind |-> "browser", n |-> 0, file |-> NoFile]
Page(i) == [kind |-> "page", n |-> i, file |-> NoFile]
FileHandle(f) == [kind |-> "file", n |-> 0, file |-> f]
NoText ==
    [ fn |-> "none", title |-> << >>, desc |-> << >>, id |-> << >>,
      slug |-> << >>, type |-> "", page |-> << >>, name |-> << >>, body |-> << >>,
      max |-> 0 ]

Variants ==
    { "build_js", "part_000", "part_001a", "part_001b", "part_002a",
      "part_002b", "part_002c", "part_003", "part_004" }

(* --------------------------- the outside world ------------------------- *)
(* What the shop serves.  A listing URL is (id, path); id 0 stands for an  *)
(* href that contains "/listing/" but no numeric id.  The title and image  *)
(* a listing page (or its feed item) carries are a function of its id.     *)

ListingIds == 1 .. 7

ListingUrls ==
    { [id |-> i, path |-> "a"] : i \in ListingIds } \cup { [id |-> 1, path |-> "b"] }

AnchorUrls == ListingUrls \cup { [id |-> 0, path |-> "a"] }

TitleOf(id) ==
    CASE id = 1 -> "cardinal flag"
      [] id = 2 -> "autumn pattern"
      [] id = 3 -> "bird flag"
      [] id = 4 -> "daisy pattern"
      [] id = 5 -> "eagle flag"
      [] id = 6 -> "fern flag"
      [] OTHER  -> "garden flag"

\* the atoms of a title that the type rules look at
TitleWords(t) ==
    CASE t = "cardinal flag"  -> << "Flag" >>
      [] t = "autumn pattern" -> << "Seamless", " ", "pattern" >>
      [] t = "bird flag"      -> << "flag" >>
      [] t = "daisy pattern"  -> << "Seamless" >>
      [] OTHER                -> << "Flag" >>

\* position of a title under String.prototype.localeCompare
TitleRank(t) ==
    CASE t = "autumn pattern" -> 1
      [] t = "bird flag"      -> 2
      [] t = "cardinal flag"  -> 3
      [] t = "daisy pattern"  -> 4
      [] t = "eagle flag"     -> 5
      [] t = "fern flag"      -> 6
      [] OTHER                -> 7

\* the <script type="application/ld+json"> block of a listing page
LdOf(url) ==
    CASE url.path = "b" -> "missing"
      [] url.id = 6     -> "unparsable"
      [] OTHER          -> "product"

ImageOf(id) ==
    CASE id = 1 -> "ok.jpg"
      [] id = 2 -> "missing.png"
      [] id = 3 -> "moved.webp"
      [] id = 4 -> "loopA.jpg"
      [] id = 5 -> "down.jpg"
      [] id = 6 -> "noloc.jpeg"
      [] OTHER  -> Null

\* the substrings of the remote URL the extension choice looks for
UrlHas(u, ext) ==
    \/ ext = "png"  /\ u = "missing.png"
    \/ ext = "webp" /\ u = "moved.webp"
    \/ ext = "jpeg" /\ u = "noloc.jpeg"

\* the response of the image host to a GET of u
Site(u) ==
    CASE u = "ok.jpg"      -> [kind |-> "ok",       to |-> Null]
      [] u = "missing.png" -> [kind |-> "status",   to |-> Null]
      [] u = "moved.webp"  -> [kind |-> "redirect", to |-> "ok.jpg"]
      [] u = "loopA.jpg"   -> [kind |-> "redirect", to |-> "loopB.jpg"]
      [] u = "loopB.jpg"   -> [kind |-> "redirect", to |-> "loopA.jpg"]
      [] u = "down.jpg"    -> [kind |-> "neterr",   to |-> Null]
      [] OTHER             -> [kind |-> "noloc",    to |-> Null]

SeqsUpTo(S, n) == UNION { [1 .. k -> S] : k \in 0 .. n }

(* ------------------------------- state --------------------------------- *)

VARIABLES
    variant,      \* which build script runs
    pc,           \* position of the build function
    fs,           \* the project root on disk
    fs0,          \* the disk as it was before the run
    writeLog,     \* files written by this run, in order
    listingMap,   \* fetchListingUrlsFromShop: listingMap, in insertion order
    shopPage,     \* fetchListingUrlsFromShop: p
    listingUrls,  \* result of discovery
    products,     \* the product list
    idx,          \* position of the running for..of loop
    cur,          \* product scraped but not yet pushed
    dl,           \* download in flight, or NoDl
    matLog,       \* one record per finished image materialisation
    scrapeLog,    \* outcome of each per-listing scrape, in order
    discovery,    \* how the discovery fetch ended: "none", "ok", "status", "neterr", "navfail"
    dupSeen,      \* discovery met a listing id it had already collected
    cause,        \* what threw to the top level: "none", "discovery", "empty", "scrape", "download"
    thrown,       \* an error reached the top level of build()
    log,          \* banners printed
    exitCode,     \* process exit status: "running", "0" or "1"
    text,         \* the last string function applied, its arguments and result
    net,          \* network operations begun and neither resolved nor rejected
    open          \* browsers, pages and file streams opened and not yet closed

vars ==
    << variant, pc, fs, fs0, writeLog, listingMap, shopPage, listingUrls,
       products, idx, cur, dl, matLog, scrapeLog, discovery, dupSeen, cause,
       thrown, log, exitCode, text, net, open >>

\* the state of a build, without the string-function record
pipelineButOpen ==
    << pc, fs, fs0, writeLog, listingMap, shopPage, listingUrls,
       products, idx, cur, dl, matLog, scrapeLog, discovery, dupSeen, cause,
       thrown, log, exitCode >>

pipeline ==
    << pc, fs, fs0, writeLog, listingMap, shopPage, listingUrls,
       products, idx, cur, dl, matLog, scrapeLog, discovery, dupSeen, cause,
       thrown, log, exitCode, net, open >>

(* --------------------------- string functions -------------------------- *)
(* Strings are sequences of atoms: a single character, or a whole word     *)
(* where only the word matters to the code ("pattern", "Flag").            *)

\* atoms matched by [a-z0-9]
LowerWords ==
    { "flag", "pattern", "seamless", "product", "by", "thecharmedcardinal", "ref" }
Digits == { "1", "7" }

\* String.prototype.toLowerCase, atom by atom
LowerAtom(a) ==
    CASE a = "Flag" -> "flag"
      [] a = "Seamless" -> "seamless"
      [] a = "TheCharmedCardinal" -> "thecharmedcardinal"
      [] OTHER -> a

toLowerCase(s) == [k \in 1 .. Len(s) |-> LowerAtom(s[k])]

IsAlnum(a) == a \in LowerWords \cup Digits

\* a slug that keeps the title's characters as they are
DashRuns_KeepsAll(s) == s

\* .replace(/[^a-z0-9]+/g, "-")
RECURSIVE DashRuns(_)
DashRuns(s) ==
    IF s = << >> THEN << >>
    ELSE IF IsAlnum(Head(s)) THEN << Head(s) >> \o DashRuns(Tail(s))
    ELSE IF Len(s) > 1 /\ ~IsAlnum(s[2]) THEN DashRuns(Tail(s))
    ELSE << "-" >> \o DashRuns(Tail(s))

\* .replace(/^-+|-+$/g, "")
RECURSIVE TrimDashes(_)
TrimDashes(s) ==
    IF s # << >> /\ Head(s) = "-" THEN TrimDashes(Tail(s))
    ELSE IF s # << >> /\ s[Len(s)] = "-" THEN TrimDashes(SubSeq(s, 1, Len(s) - 1))
    ELSE s

\* .replace(/^-|-$/g, "")
TrimDash(s) ==
    LET t == IF s # << >> /\ Head(s) = "-" THEN Tail(s) ELSE s
    IN  IF t # << >> /\ t[Len(t)] = "-" THEN SubSeq(t, 1, Len(t) - 1) ELSE t

ListingPrefix == "https://www.etsy.com/listing/"

\* item.link of a listing: prefix, numeric id, path, query
LinkOf(id, path) ==
    << ListingPrefix >> \o id
        \o (IF path = << >> THEN << >> ELSE << "/" >> \o path)
        \o << "?", "ref" >>

\* .replace(/\?.*/, "")
RECURSIVE StripQuery(_)
StripQuery(s) ==
    IF s = << >> \/ Head(s) = "?" THEN << >>
    ELSE << Head(s) >> \o StripQuery(Tail(s))

\* the slug part_001a takes from item.link
SlugFromLink(link) ==
    LET rest == IF link # << >> /\ Head(link) = ListingPrefix THEN Tail(link) ELSE link
    IN  DashRuns(toLowerCase(StripQuery(rest)))

\* the slug of a product, from its title and listing id
slugFromTitleAndId(v, title, id) ==
    CASE v \in { "build_js", "part_000", "part_003" } ->
            LET base == TrimDashes(DashRuns(toLowerCase(title)))
            IN  (IF base = << >> THEN << "product" >> ELSE base) \o << "-" >> \o id
      [] v \in { "part_002b", "part_004" } ->
            TrimDashes(DashRuns(toLowerCase(title))) \o << "-" >> \o id
      [] v = "part_001b" ->
            TrimDash(DashRuns(toLowerCase(title))) \o << "-" >> \o id
      [] v = "part_002a" ->
            TrimDashes(DashRuns(toLowerCase(title)))
                \o << "-", "by", "-", "thecharmedcardinal", "-" >> \o id
      [] v = "part_002c" ->
            TrimDash(DashRuns(toLowerCase(title)))
                \o << "-", "by", "-", "thecharmedcardinal", "-" >> \o id
      [] OTHER -> SlugFromLink(LinkOf(id, title))

\* decodeHtmlEntities / decodeEntities, for the named entities
decodeHtmlEntities(s) ==
    [k \in 1 .. Len(s) |->
        CASE s[k] = "&amp;" -> "&"
          [] s[k] = "&lt;" -> "<"
          [] s[k] = "&gt;" -> ">"
          [] s[k] = "&quot;" -> "\""
          [] OTHER -> s[k]]

IsSpace(a) == a \in { " ", "\n" }

\* String.prototype.trim
RECURSIVE Trim(_)
Trim(s) ==
    IF s # << >> /\ IsSpace(Head(s)) THEN Trim(Tail(s))
    ELSE IF s # << >> /\ IsSpace(s[Len(s)]) THEN Trim(SubSeq(s, 1, Len(s) - 1))
    ELSE s

\* .replace(/\s+/g, " ")
RECURSIVE CollapseSpace(_)
CollapseSpace(s) ==
    IF s = << >> THEN << >>
    ELSE IF ~IsSpace(Head(s)) THEN << Head(s) >> \o CollapseSpace(Tail(s))
    ELSE IF Len(s) > 1 /\ IsSpace(s[2]) THEN CollapseSpace(Tail(s))
    ELSE << " " >> \o CollapseSpace(Tail(s))

\* a whole tag written in the feed's html
IsTag(a) == a \in { "<p>", "</p>", "<br>" }

\* where the match of /<[^>]+>/ that starts at the head of s ends, or 0
TagEnd(s) ==
    IF s = << >> THEN 0
    ELSE IF IsTag(Head(s)) THEN 1
    ELSE IF Head(s) = "<" /\ Len(s) >= 3 /\ s[2] # ">" /\ ~IsTag(s[2])
              /\ \E j \in 3 .. Len(s) : s[j] = ">" \/ IsTag(s[j])
         THEN LET j == CHOOSE i \in 3 .. Len(s) :
                          /\ (s[i] = ">" \/ IsTag(s[i]))
                          /\ \A h \in 3 .. i - 1 : ~(s[h] = ">" \/ IsTag(s[h]))
              IN  j
         ELSE 0

\* .replace(/<[^>]+>/g, with)
RECURSIVE ReplaceTags(_, _)
ReplaceTags(s, with) ==
    IF s = << >> THEN << >>
    ELSE IF TagEnd(s) > 0
         THEN with \o ReplaceTags(SubSeq(s, TagEnd(s) + 1, Len(s)), with)
         ELSE << Head(s) >> \o ReplaceTags(Tail(s), with)

\* .replace(/<br\s*\/?>/gi, "\n").replace(/<\/p>/gi, "\n\n")
BreaksToNewlines(s) ==
    [k \in 1 .. Len(s) |-> IF s[k] \in { "<br>", "</p>" } THEN "\n" ELSE s[k]]

\* stripHtml (build.js: tags become a space; part_003: tags vanish)
stripHtml(v, html) ==
    IF v = "build_js"
    THEN Trim(CollapseSpace(ReplaceTags(BreaksToNewlines(html), << " " >>)))
    ELSE Trim(CollapseSpace(ReplaceTags(html, << >>)))

\* item.contentSnippet: the feed parser's text of the item, tags taken out
contentSnippet(html) == Trim(SelectSeq(html, LAMBDA a : ~IsTag(a)))

\* String.prototype.lastIndexOf(ch, from), counted from 0; -1 when absent
lastIndexOf(t, ch, from) ==
    LET f == IF from < 0 THEN 0 ELSE from
        at == { i \in 0 .. Len(t) - 1 : i <= f /\ t[i + 1] = ch }
    IN  IF at = {} THEN -1 ELSE CHOOSE i \in at : \A j \in at : j <= i

\* String.prototype.slice(0, end): a negative end counts from the end
slice(t, end) ==
    LET e == IF end < 0 THEN Len(t) + end ELSE end
    IN  IF e <= 0 THEN << >> ELSE IF e >= Len(t) THEN t ELSE SubSeq(t, 1, e)

\* .replace(/\s+\S*$/, ""): the last run of white space and what follows it
DropLastWord(s) ==
    LET sp == { i \in 1 .. Len(s) : IsSpace(s[i]) }
        last == CHOOSE i \in sp : \A j \in sp : j <= i
        from == CHOOSE i \in sp :
                    /\ \A j \in i .. last : j \in sp
                    /\ \A h \in sp : (\A j \in h .. last : j \in sp) => i <= h
    IN  IF sp = {} THEN s ELSE SubSeq(s, 1, from - 1)

\* summarize of build.js
summarize(text_, maxLen) ==
    LET t == Trim(text_)
        cut == lastIndexOf(t, " ", maxLen - 3)
        end == IF cut > 50 THEN cut ELSE maxLen - 3
    IN  IF Len(t) <= maxLen THEN t ELSE slice(t, end) \o << ".", ".", "." >>

\* truncate of part_000; the atom "ellipsis" is the one character U+2026
truncate(str, max) ==
    LET s == Trim(str)
    IN  IF Len(s) <= max THEN s ELSE DropLastWord(slice(s, max)) \o << "ellipsis" >>

\* the description of a card of part_001: ${p.description.slice(0, n)}...
cardDescription(description, n) == slice(description, n) \o << ".", ".", "." >>

\* the scripts that clamp a description, and the limits they clamp to
Clamps(v) == v \in { "build_js", "part_000", "part_001a", "part_001b" }

ClampLimits(v) ==
    CASE v = "build_js" -> { 160, 190, 200 }
      [] v = "part_000" -> { 140 }
      [] v = "part_001a" -> { 120 }
      [] v = "part_001b" -> { 90 }
      [] OTHER -> { }

clamp(v, description, maxLen) ==
    CASE v = "build_js" -> summarize(description, maxLen)
      [] v = "part_000" -> truncate(description, maxLen)
      [] OTHER -> cardDescription(description, maxLen)

\* the shop-name suffix of a feed title, matched without regard to case
EndsWithShopName(s) ==
    /\ Len(s) >= 4
    /\ IsSpace(s[Len(s) - 3])
    /\ s[Len(s) - 2] = "by"
    /\ IsSpace(s[Len(s) - 1])
    /\ LowerAtom(s[Len(s)]) = "thecharmedcardinal"

\* the title a product gets from its feed item
ItemTitle(v, raw) ==
    CASE v = "build_js" ->
            LET d == decodeHtmlEntities(raw)
                t == Trim(IF EndsWithShopName(d) THEN SubSeq(d, 1, Len(d) - 4) ELSE d)
            IN  IF t = << >> THEN << "Untitled product" >> ELSE t
      [] v = "part_000" -> decodeHtmlEntities(raw)
      [] v = "part_003" -> Trim(raw)
      [] OTHER -> raw

\* the description a product gets from its feed item
ItemDescription(v, title, html) ==
    CASE v = "build_js" ->
            LET d == stripHtml(v, decodeHtmlEntities(html))
            IN  IF d = << >> THEN title ELSE d
      [] v = "part_003" ->
            LET d == stripHtml(v, html)
            IN  IF d = << >> THEN << "A handmade design from The Charmed Cardinal." >> ELSE d
      [] v = "part_000" ->
            LET d == Trim(decodeHtmlEntities(contentSnippet(html)))
            IN  IF d = << >>
                THEN << "A handcrafted design from The Charmed Cardinal on Etsy." >>
                ELSE d
      [] OTHER -> contentSnippet(html)

\* String.prototype.includes, for a word that is an atom
Includes(s, w) == \E k \in 1 .. Len(s) : s[k] = w

\* the type (part_001a: the category) a product is given
inferType(v, title, desc) ==
    LET t == toLowerCase(title \o << " " >> \o desc) IN
    CASE v = "part_001a" ->
            IF Includes(title, "Flag") THEN "Garden Flag" ELSE "Digital Pattern"
      [] v = "part_001b" ->
            IF Includes(t, "pattern") THEN "digital-pattern" ELSE "garden-flag"
      [] OTHER ->
            IF Includes(t, "pattern") \/ Includes(t, "seamless")
            THEN "digital-pattern" ELSE "garden-flag"

\* escapeHtml: & " < > become named entities
escapeHtml(s) ==
    [k \in 1 .. Len(s) |->
        CASE s[k] = "&" -> "&amp;"
          [] s[k] = "\"" -> "&quot;"
          [] s[k] = "<" -> "&lt;"
          [] s[k] = ">" -> "&gt;"
          [] OTHER -> s[k]]

\* JSON.stringify of a string, without its outer quotes: only " is changed
JSONstringify(s) ==
    [k \in 1 .. Len(s) |-> IF s[k] = "\"" THEN "\\\"" ELSE s[k]]

\* the product page carries a <script type="application/ld+json"> block
HasJsonLd(v) == v \in { "build_js", "part_002b", "part_004" }

\* the layout writes og:title; the page has an <img alt>; it has a breadcrumb
HasOgTitle(v) == v # "part_001a"
HasAlt(v) == v \notin { "part_002a", "part_002b", "part_002c" }
HasBreadcrumb(v) == v \in { "build_js", "part_000", "part_002b", "part_003", "part_004" }

\* the <title> text the layout is given
PageTitle(v, title) ==
    IF v = "part_001a" THEN title ELSE title \o << " | The Charmed Cardinal" >>

\* the places of a product page where scraped text is inserted, in page
\* order: where (element content, attribute value, script block) and what
renderProductPage(v, title, link) ==
    << [ctx |-> "element", at |-> "title", text |-> escapeHtml(PageTitle(v, title))] >>
    \o (IF HasOgTitle(v)
        THEN << [ctx |-> "attribute", at |-> "og:title",
                 text |-> escapeHtml(PageTitle(v, title))] >>
        ELSE << >>)
    \o (IF HasJsonLd(v)
        THEN << [ctx |-> "script", at |-> "ld+json", text |-> JSONstringify(title)] >>
        ELSE << >>)
    \o (IF HasBreadcrumb(v)
        THEN << [ctx |-> "element", at |-> "breadcrumb", text |-> escapeHtml(title)] >>
        ELSE << >>)
    \o (IF HasAlt(v)
        THEN << [ctx |-> "attribute", at |-> "alt", text |-> escapeHtml(title)] >>
        ELSE << >>)
    \o << [ctx |-> "element", at |-> "h1", text |-> escapeHtml(title)],
          [ctx |-> "attribute", at |-> "href", text |-> link] >>

(* --------------------------- variant traits ---------------------------- *)

\* products are built from the feed items alone, with no per-listing fetch
RssOnly(v) == v \in { "build_js", "part_000", "part_001a", "part_003" }

\* the scrape loop wraps each listing in its own try/catch
CatchesScrape(v) == v \in { "part_002b", "part_004" }

\* the image is downloaded inside the scrape loop, before the product is pushed
InlineImage(v) == v \in { "part_001b", "part_002a", "part_002c" }

\* the image is materialised inside the page loop, after products.json is saved
PageLoopImage(v) == v \in { "build_js", "part_002b", "part_004" }

\* a rejected download is caught where it happens
CatchesDownload(v) == v \notin { "part_001b", "part_002b" }

\* the download function re-invokes itself on a 3xx with a Location header
ManualRedirect(v) ==
    v \in { "build_js", "part_000", "part_002b", "part_003", "part_004" }

\* an empty discovery result throws
EmptyListingsFatal(v) ==
    v \in { "build_js", "part_001b", "part_002b", "part_002c", "part_003", "part_004" }

\* an empty product list after the scrape loop throws
EmptyProductsFatal(v) == v = "part_004"

\* what the top level does with a thrown error: the banner and the exit status
FailBanner(v) == IF v = "part_001a" THEN "unhandled" ELSE "failed"

FailExit(v) ==
    CASE v = "part_001a" -> { "0", "1" }
      [] v = "part_001b" -> { "0" }
      [] OTHER           -> { "1" }

(* ------------------------------ products ------------------------------- *)

Slug(v, url) ==
    IF v = "part_001a"
    THEN [base |-> url.path, id |-> url.id]
    ELSE [base |-> TitleOf(url.id), id |-> url.id]

MakeProduct(v, url) ==
    [ id    |-> url.id,
      path  |-> url.path,
      title |-> TitleOf(url.id),
      type  |-> inferType(v, TitleWords(TitleOf(url.id)), << >>),
      image |-> ImageOf(url.id),
      slug  |-> Slug(v, url),
      local |-> NoFile ]

\* extension of the local file, chosen from the remote URL
ExtFor(v, u) ==
    CASE v \in { "build_js", "part_003" } ->
            IF UrlHas(u, "png") THEN "png"
            ELSE IF UrlHas(u, "webp") THEN "webp"
            ELSE IF UrlHas(u, "jpeg") THEN "jpeg" ELSE "jpg"
      [] v = "part_004" ->
            IF UrlHas(u, "png") THEN "png"
            ELSE IF UrlHas(u, "jpeg") THEN "jpeg"
            ELSE IF UrlHas(u, "webp") THEN "webp" ELSE "jpg"
      [] v = "part_002b" ->
            IF UrlHas(u, "webp") THEN "webp"
            ELSE IF UrlHas(u, "png") THEN "png" ELSE "jpg"
      [] v \in { "part_002a", "part_002c" } ->
            IF UrlHas(u, "png") THEN "png" ELSE "jpg"
      [] OTHER -> "jpg"

Dest(v, p) == [slug |-> p.slug, ext |-> ExtFor(v, p.image)]

PossibleExts == << "jpg", "jpeg", "png", "webp" >>

\* the first <slug>.<ext> on disk, in the order the code probes
FirstExisting(slug, images) ==
    IF \E k \in 1 .. Len(PossibleExts) : [slug |-> slug, ext |-> PossibleExts[k]] \in images
    THEN LET k == CHOOSE j \in 1 .. Len(PossibleExts) :
                    /\ [slug |-> slug, ext |-> PossibleExts[j]] \in images
                    /\ \A i \in 1 .. j - 1 : [slug |-> slug, ext |-> PossibleExts[i]] \notin images
         IN  [slug |-> slug, ext |-> PossibleExts[k]]
    ELSE NoFile

\* the local file the materialiser reuses without a download, or NoFile
CacheLookup(v, p, images) ==
    CASE v \in { "build_js", "part_004" } -> FirstExisting(p.slug, images)
      [] v \in { "part_000", "part_001a", "part_002b", "part_003" } ->
            IF p.image # Null /\ Dest(v, p) \in images THEN Dest(v, p) ELSE NoFile
      [] OTHER -> NoFile

RECURSIVE InsertByTitle(_, _)
InsertByTitle(p, s) ==
    IF s = << >> THEN << p >>
    ELSE IF TitleRank(p.title) < TitleRank(Head(s).title)
         THEN << p >> \o s
         ELSE << Head(s) >> \o InsertByTitle(p, Tail(s))

RECURSIVE SortByTitle(_)
SortByTitle(s) ==
    IF s = << >> THEN << >>
    ELSE InsertByTitle(s[Len(s)], SortByTitle(SubSeq(s, 1, Len(s) - 1)))

\* a build that sorts the product list in every script
ListForJson_SortsEverywhere(v, ps) == SortByTitle(ps)

\* the product list as it is when products.json is serialised
ListForJson(v, ps) == IF v = "part_000" THEN SortByTitle(ps) ELSE ps

\* a collection that keeps every anchor it is given
MapSet_KeepsAll(m, u) == Append(m, u)

\* listingMap.set(id, u): a new key goes last, an old key keeps its place
MapSet(m, u) ==
    IF \E k \in 1 .. Len(m) : m[k].id = u.id
    THEN [k \in 1 .. Len(m) |-> IF m[k].id = u.id THEN u ELSE m[k]]
    ELSE Append(m, u)

RECURSIVE MapSetAll(_, _)
MapSetAll(m, us) ==
    IF us = << >> THEN m
    ELSE MapSetAll(IF Head(us).id # 0 THEN MapSet(m, Head(us)) ELSE m, Tail(us))

\* parseJsonLD: null when the block is absent or JSON.parse throws
parseJsonLD(ld) == IF ld \in { "missing", "unparsable" } THEN Null ELSE ld

\* the extraction yields a product (part_001:409 throws "JSON-LD not found")
Extracts(v, url) == v = "part_001b" => parseJsonLD(LdOf(url)) # Null

\* the static pages a build writes after the product pages, in order
StaticFiles(v) ==
    CASE v \in { "build_js", "part_000" } ->
            << "garden-flags", "digital-patterns", "shop", "index", "blog", "sitemap" >>
      [] v \in { "part_001a", "part_001b", "part_002a", "part_002c" } ->
            << "garden-flags", "digital-patterns", "shop", "index", "sitemap" >>
      [] v = "part_002b" -> << "sitemap" >>
      [] OTHER -> << "garden-flags", "digital-patterns", "shop", "sitemap" >>

Range(s) == { s[k] : k \in 1 .. Len(s) }

\* the value of type (part_001a: of category) each category page filters on
FlagType(v) == IF v = "part_001a" THEN "Garden Flag" ELSE "garden-flag"
PatternType(v) == IF v = "part_001a" THEN "Digital Pattern" ELSE "digital-pattern"

\* a category page that shows every product
Cards_Unfiltered(ps, type) == [k \in 1 .. Len(ps) |-> ps[k].slug]

\* products.filter(p => p.type === type).map(card): the slugs the cards link to
Cards(ps, type) ==
    LET items == SelectSeq(ps, LAMBDA p : p.type = type)
    IN  [k \in 1 .. Len(items) |-> items[k].slug]

\* the cards of the two category pages, where the script writes them
CategoryCards(v, ps, before) ==
    IF "garden-flags" \in Range(StaticFiles(v))
    THEN [flags |-> Cards(ps, FlagType(v)), patterns |-> Cards(ps, PatternType(v))]
    ELSE before

\* the static entries of sitemap.xml, as paths under the domain
SitemapStatic(v) ==
    CASE v = "build_js" ->
            << "", "shop.html", "about.html", "blog/",
               "products/garden-flags.html", "products/digital-patterns.html" >>
      [] v = "part_000" ->
            << "", "index.html", "about.html", "shop.html", "blog/",
               "blog/style-your-porch-with-garden-flags.html",
               "products/garden-flags.html", "products/digital-patterns.html" >>
      [] v \in { "part_003", "part_004" } ->
            << "", "about.html", "shop.html", "blog/",
               "blog/style-your-porch-with-garden-flags.html",
               "products/garden-flags.html", "products/digital-patterns.html" >>
      [] v = "part_002b" -> << >>
      [] OTHER ->
            << "", "shop.html",
               "products/garden-flags.html", "products/digital-patterns.html" >>

\* the image path a product page carries
PageImage(v, p, img) ==
    CASE PageLoopImage(v) -> img
      [] v \in { "part_001a", "part_001b" } -> [slug |-> p.slug, ext |-> "jpg"]
      [] OTHER -> p.local

WritePage(pages, p, img) ==
    { q \in pages : q.slug # p.slug } \cup { [slug |-> p.slug, img |-> img] }

RECURSIVE WriteAllPages(_, _, _)
WriteAllPages(v, pages, ps) ==
    IF ps = << >> THEN pages
    ELSE WriteAllPages(v, WritePage(pages, Head(ps), PageImage(v, Head(ps), NoFile)), Tail(ps))

PageName(p) == [file |-> "page", slug |-> p.slug]
FileName(n) == [file |-> n, slug |-> NoSlug]

(* -------------------------------- Init --------------------------------- *)

\* an image file left by an earlier build
EarlierImage(v) == [slug |-> Slug(v, [id |-> 1, path |-> "a"]), ext |-> "jpg"]

\* the image files an earlier build left: listing 3 had a .jpg image then
EarlierImages(v) ==
    { EarlierImage(v), [slug |-> Slug(v, [id |-> 3, path |-> "a"]), ext |-> "jpg"] }

InitialDisks(v) ==
    { [ json    |-> << >>,
        hasJson |-> FALSE,
        pages   |-> {},
        legacy  |-> lg,
        images  |-> im,
        empty   |-> {},
        static  |-> {},
        cards   |-> NoCards,
        locs    |-> << >>,
        sitemap |-> << >> ] :
      lg \in { {}, { "untitled-product-1" } },
      im \in { {}, EarlierImages(v) } }

Init ==
    /\ variant \in Variants
    /\ pc = "start"
    /\ fs \in InitialDisks(variant)
    /\ fs0 = fs
    /\ writeLog = << >>
    /\ listingMap = << >>
    /\ shopPage = 1
    /\ listingUrls = << >>
    /\ products = << >>
    /\ idx = 1
    /\ cur = NoProduct
    /\ dl = NoDl
    /\ matLog = << >>
    /\ scrapeLog = << >>
    /\ discovery = "none"
    /\ dupSeen = FALSE
    /\ cause = "none"
    /\ text = NoText
    /\ net = {}
    /\ open = {}
    /\ thrown = FALSE
    /\ log = << >>
    /\ exitCode = "running"

(* ------------------- operations and resources in use ------------------- *)

\* an awaited operation that never leaves the set of operations in flight
EndOp_Forgets(ops, op) == ops

\* an awaited operation resolves or rejects
EndOp(ops, op) == ops \ { op }

\* the scrape loop reaches position i: the fetch of listing i begins
ListingOps(i, urls) == IF i <= Len(urls) THEN { ListingOp(i) } ELSE { }

\* what the scrape of listing i opens: fetchHtml of part_004 launches a
\* browser of its own, the part_002 scrapers open a page of the shared browser
ListingRes(v, i, urls) ==
    IF i > Len(urls) THEN { }
    ELSE CASE v = "part_004" -> { Browser, Page(i) }
           [] v \in { "part_002b", "part_002c" } -> { Page(i) }
           [] OTHER -> { }

\* what the scrape of listing i has closed when it returns
ClosedOnReturn(v, i) ==
    CASE v = "part_004" -> { Browser, Page(i) }
      [] v \in { "part_002b", "part_002c" } -> { Page(i) }
      [] OTHER -> { }

\* what the scrape of listing i has closed when it throws: only fetchHtml of
\* part_004 closes in a finally block
ClosedOnThrow(v, i) == IF v = "part_004" THEN { Browser, Page(i) } ELSE { }

\* browser.close(): the browser and every page of it
BrowserClosed(res) == { r \in res : r.kind \notin { "browser", "page" } }

\* the build launches the shared browser once discovery has returned
LaunchesShared(v) == v \in { "part_002b", "part_002c" }

(* ------------------------ control-flow fragments ----------------------- *)

Goto(p) ==
    /\ pc' = p
    /\ UNCHANGED << cause, thrown, log, exitCode >>

\* an error reaches the top level of build()
Throw(why) ==
    /\ pc' = "done"
    /\ cause' = why
    /\ thrown' = TRUE
    /\ log' = Append(log, FailBanner(variant))
    /\ exitCode' \in FailExit(variant)

\* the process dies on an 'error' event nobody listens for
Crash(why) ==
    /\ pc' = "done"
    /\ cause' = why
    /\ thrown' = TRUE
    /\ log' = Append(log, "uncaught")
    /\ exitCode' = "1"

(* ------------------------------ discovery ------------------------------ *)

\* build() up to its first await
Start ==
    /\ pc = "start"
    /\ fs' = IF variant = "build_js" THEN [fs EXCEPT !.legacy = {}] ELSE fs
    /\ Goto(IF variant = "part_004" THEN "shop" ELSE "discover")
    /\ net' = IF variant = "part_004" THEN { NavOp(1) } ELSE { FeedOp }
    /\ open' = IF variant = "part_004" THEN { Browser, Page(0) } ELSE open
    /\ UNCHANGED << variant, text, fs0, writeLog, listingMap, shopPage, listingUrls,
                    products, idx, cur, dl, matLog, scrapeLog, discovery, dupSeen >>

\* what the feed endpoint can answer
FeedResponses ==
    { [kind |-> "ok", parsable |-> TRUE, items |-> s] :
        s \in SeqsUpTo(ListingUrls, MaxListings) }
    \cup { [kind |-> "status", parsable |-> TRUE, items |-> s] :
        s \in SeqsUpTo(ListingUrls, MaxListings) }
    \cup { [kind |-> "status", parsable |-> FALSE, items |-> << >>],
           [kind |-> "neterr", parsable |-> FALSE, items |-> << >>] }

\* the feed fetch rejects
FeedRejects(v, r) ==
    \/ r.kind = "neterr" /\ v # "part_002b"
    \/ r.kind = "status" /\ v # "part_001b"
    \/ r.kind = "status" /\ ~r.parsable

\* the feed fetch ends in an 'error' event without a listener
FeedCrashes(v, r) == r.kind = "neterr" /\ v = "part_002b"

\* every script writing products.json straight after discovery
AfterDiscovery_JsonFirst(v) == IF RssOnly(v) THEN "json" ELSE "scrape"

AfterDiscovery(v) ==
    IF v = "build_js" THEN "json" ELSE IF RssOnly(v) THEN "images" ELSE "scrape"

HasRepeatedId(us) ==
    \E i, j \in 1 .. Len(us) : i < j /\ us[i].id # 0 /\ us[i].id = us[j].id

\* the feed request settles; the build runs on to its next await
Discover ==
    /\ pc = "discover"
    /\ \E r \in FeedResponses :
        /\ discovery' = r.kind
        /\ IF FeedCrashes(variant, r)
           THEN /\ Crash("discovery")
                /\ net' = EndOp(net, FeedOp)
                /\ UNCHANGED << listingUrls, products, dupSeen, open >>
           ELSE IF FeedRejects(variant, r)
           THEN /\ Throw("discovery")
                /\ net' = EndOp(net, FeedOp)
                /\ UNCHANGED << listingUrls, products, dupSeen, open >>
           ELSE IF r.items = << >> /\ EmptyListingsFatal(variant)
           THEN /\ Throw("empty")
                /\ net' = EndOp(net, FeedOp)
                /\ UNCHANGED << listingUrls, products, dupSeen, open >>
           ELSE /\ listingUrls' = r.items
                /\ net' = EndOp(net, FeedOp) \cup
                            (IF RssOnly(variant) THEN { } ELSE ListingOps(1, r.items))
                /\ open' = (IF LaunchesShared(variant) THEN open \cup { Browser } ELSE open)
                            \cup (IF RssOnly(variant) THEN { }
                                  ELSE ListingRes(variant, 1, r.items))
                /\ dupSeen' = HasRepeatedId(r.items)
                /\ products' =
                     IF RssOnly(variant)
                     THEN [k \in 1 .. Len(r.items) |-> MakeProduct(variant, r.items[k])]
                     ELSE << >>
                /\ Goto(AfterDiscovery(variant))
    /\ UNCHANGED << variant, text, fs, fs0, writeLog, listingMap, shopPage, idx, cur,
                    dl, matLog, scrapeLog >>

\* what one rendered shop page can show: its listing anchors, or a failed navigation
ShopAnchors == SeqsUpTo(AnchorUrls, MaxAnchors)

\* fetchListingUrlsFromShop: one iteration of the page loop
ShopPage ==
    /\ pc = "shop"
    /\ \/ /\ Throw("discovery")
          /\ discovery' = "navfail"
          /\ net' = EndOp(net, NavOp(shopPage))
          /\ UNCHANGED << listingMap, shopPage, listingUrls, dupSeen, open >>
       \/ \E urls \in ShopAnchors :
            LET m == MapSetAll(listingMap, urls) IN
            /\ Len(m) <= MaxListings
            /\ listingMap' = m
            /\ dupSeen' = (dupSeen \/ HasRepeatedId(listingMap \o urls))
            /\ IF urls = << >> \/ shopPage = MaxPages
               THEN /\ shopPage' = shopPage
                    /\ discovery' = "ok"
                    /\ IF m = << >>
                       THEN /\ Throw("empty")
                            /\ net' = EndOp(net, NavOp(shopPage))
                            /\ open' = BrowserClosed(open)
                            /\ UNCHANGED listingUrls
                       ELSE /\ Goto("scrape")
                            /\ listingUrls' = m
                            /\ net' = EndOp(net, NavOp(shopPage)) \cup ListingOps(1, m)
                            /\ open' = BrowserClosed(open) \cup ListingRes(variant, 1, m)
               ELSE /\ shopPage' = shopPage + 1
                    /\ Goto("shop")
                    /\ net' = EndOp(net, NavOp(shopPage)) \cup { NavOp(shopPage + 1) }
                    /\ UNCHANGED << listingUrls, discovery, open >>
    /\ UNCHANGED << variant, text, fs, fs0, writeLog, products, idx, cur, dl, matLog,
                    scrapeLog >>

(* ------------------------------- scrape -------------------------------- *)

\* the scrape of a listing throws: caught at the listing, or at the top level
ScrapeAbandon(why) ==
    /\ scrapeLog' = Append(scrapeLog, [url |-> listingUrls[idx], ok |-> FALSE, why |-> why])
    /\ IF CatchesScrape(variant)
       THEN /\ Goto("scrape")
            /\ idx' = idx + 1
            /\ net' = EndOp(net, ListingOp(idx)) \cup ListingOps(idx + 1, listingUrls)
            /\ open' = (open \ ClosedOnThrow(variant, idx))
                        \cup ListingRes(variant, idx + 1, listingUrls)
       ELSE /\ Throw("scrape")
            /\ net' = EndOp(net, ListingOp(idx))
            /\ open' = open \ ClosedOnThrow(variant, idx)
            /\ UNCHANGED idx
    /\ UNCHANGED << variant, text, fs, fs0, writeLog, listingMap, shopPage, listingUrls,
                    products, cur, dl, matLog, discovery, dupSeen >>

\* one iteration of the scrape loop: the listing fetch fails
ScrapeFail ==
    /\ pc = "scrape"
    /\ idx <= Len(listingUrls)
    /\ ScrapeAbandon("fetch")

\* one iteration of the scrape loop: the page arrives, the extraction throws
ExtractFail ==
    /\ pc = "scrape"
    /\ idx <= Len(listingUrls)
    /\ ~Extracts(variant, listingUrls[idx])
    /\ ScrapeAbandon("jsonld")

\* one iteration of the scrape loop: the listing yields a product
ScrapeOk ==
    /\ pc = "scrape"
    /\ idx <= Len(listingUrls)
    /\ Extracts(variant, listingUrls[idx])
    /\ scrapeLog' = Append(scrapeLog, [url |-> listingUrls[idx], ok |-> TRUE, why |-> "none"])
    /\ IF InlineImage(variant)
       THEN /\ cur' = MakeProduct(variant, listingUrls[idx])
            /\ Goto("scrape_img")
            /\ net' = EndOp(net, ListingOp(idx))
            /\ open' = open \ ClosedOnReturn(variant, idx)
            /\ UNCHANGED << products, idx >>
       ELSE /\ products' = Append(products, MakeProduct(variant, listingUrls[idx]))
            /\ idx' = idx + 1
            /\ Goto("scrape")
            /\ net' = EndOp(net, ListingOp(idx)) \cup ListingOps(idx + 1, listingUrls)
            /\ open' = (open \ ClosedOnReturn(variant, idx))
                        \cup ListingRes(variant, idx + 1, listingUrls)
            /\ UNCHANGED cur
    /\ UNCHANGED << variant, text, fs, fs0, writeLog, listingMap, shopPage, listingUrls,
                    dl, matLog, discovery, dupSeen >>

\* the scrape loop is over
ScrapeDone ==
    /\ pc = "scrape"
    /\ idx > Len(listingUrls)
    /\ IF products = << >> /\ EmptyProductsFatal(variant)
       THEN Throw("empty")
       ELSE Goto("json")
    /\ idx' = 1
    /\ open' = IF LaunchesShared(variant) THEN BrowserClosed(open) ELSE open
    /\ net' = net
    /\ UNCHANGED << variant, text, fs, fs0, writeLog, listingMap, shopPage, listingUrls,
                    products, cur, dl, matLog, scrapeLog, discovery, dupSeen >>

(* ------------------------- image materialisation ----------------------- *)

\* the product the materialiser is working on
Subject == IF pc = "scrape_img" THEN cur ELSE products[idx]

Materialising ==
    \/ pc = "scrape_img"
    \/ pc \in { "images", "page_img" } /\ idx <= Len(products)

\* the materialiser is done with Subject: result is the local file or NoFile,
\* disk is the disk it leaves; the loop it was called from goes on
Settle(result, disk, handles, requested, existed) ==
    /\ net' = EndOp(net, ImageOp(idx))
                \cup (IF pc = "scrape_img" THEN ListingOps(idx + 1, listingUrls) ELSE { })
    /\ open' = handles
                \cup (IF pc = "scrape_img"
                      THEN ListingRes(variant, idx + 1, listingUrls) ELSE { })
    /\ matLog' = Append(matLog, [ slug      |-> Subject.slug,
                                  existed   |-> existed,
                                  requested |-> requested,
                                  result    |-> result ])
    /\ dl' = NoDl
    /\ CASE pc = "scrape_img" ->
              /\ products' = Append(products,
                    IF variant = "part_001b" THEN cur ELSE [cur EXCEPT !.local = result])
              /\ cur' = NoProduct
              /\ idx' = idx + 1
              /\ fs' = disk
              /\ Goto("scrape")
              /\ UNCHANGED writeLog
         [] pc = "images" ->
              /\ products' =
                    IF variant = "part_001a" THEN products
                    ELSE [products EXCEPT ![idx].local = result]
              /\ idx' = idx + 1
              /\ fs' = disk
              /\ Goto("images")
              /\ UNCHANGED << cur, writeLog >>
         [] OTHER ->
              /\ fs' = [disk EXCEPT !.pages =
                          WritePage(disk.pages, Subject, PageImage(variant, Subject, result))]
              /\ writeLog' = Append(writeLog, PageName(Subject))
              /\ idx' = idx + 1
              /\ Goto("page_img")
              /\ UNCHANGED << cur, products >>

\* a download rejected: caught at the product, or thrown to the top level
Reject(disk, existed) ==
    IF CatchesDownload(variant)
    THEN Settle(NoFile, disk, open, TRUE, existed)
    ELSE /\ Throw("download")
         /\ fs' = disk
         /\ dl' = NoDl
         /\ net' = EndOp(net, ImageOp(idx))
         /\ open' = open
         /\ UNCHANGED << products, idx, cur, writeLog, matLog >>

\* createWriteStream(dest) before the request is made
OpensFileFirst(v) == v = "part_001a"

\* the materialiser is called for Subject: cache probe, then the request
Materialize ==
    /\ Materialising
    /\ dl = NoDl
    /\ LET p      == Subject
           hit    == CacheLookup(variant, p, fs.images)
           existed ==
               \/ hit # NoFile
               \/ p.image # Null /\ Dest(variant, p) \in fs.images
       IN  IF hit # NoFile
           THEN Settle(hit, fs, open, FALSE, existed)
           ELSE IF p.image = Null
           THEN Settle(NoFile, fs, open, FALSE, existed)
           ELSE /\ dl' = [ url     |-> p.image,
                           dest    |-> Dest(variant, p),
                           hops    |-> 0,
                           existed |-> existed,
                           stage   |-> "request" ]
                /\ net' = net \cup { ImageOp(idx) }
                /\ open' = IF OpensFileFirst(variant)
                           THEN open \cup { FileHandle(Dest(variant, p)) }
                           ELSE open
                /\ fs' = IF OpensFileFirst(variant)
                         THEN [fs EXCEPT !.images = @ \cup { Dest(variant, p) },
                                         !.empty  = @ \cup { Dest(variant, p) }]
                         ELSE fs
                /\ Goto(pc)
                /\ UNCHANGED << products, idx, cur, writeLog, matLog >>
    /\ UNCHANGED << variant, text, fs0, listingMap, shopPage, listingUrls, scrapeLog,
                    discovery, dupSeen >>

\* the download follows a 3xx that carries a Location header
Follows(v, d) ==
    \/ ManualRedirect(v)
    \/ v = "part_001b" /\ d.hops < FetchMaxRedirects

\* the promise resolves without a close of the stream before it: part_001a
\* resolves on 'finish', part_001b writes the buffer with writeFileSync
ResolvesUnclosed(v) == v \in { "part_001a", "part_001b" }

\* the response to the request in flight arrives
Response ==
    /\ dl.stage = "request"
    /\ LET r == Site(dl.url)
           disk == [fs EXCEPT !.images = @ \cup { dl.dest }, !.empty = @ \ { dl.dest }]
       IN
       CASE r.kind = "ok" /\ ResolvesUnclosed(variant) ->
              Settle(dl.dest, disk, open, TRUE, dl.existed)
         [] r.kind = "ok" /\ ~ResolvesUnclosed(variant) ->
              /\ dl' = [dl EXCEPT !.stage = "written"]
              /\ fs' = disk
              /\ open' = open \cup { FileHandle(dl.dest) }
              /\ Goto(pc)
              /\ UNCHANGED << products, idx, cur, writeLog, matLog, net >>
         [] r.kind = "redirect" /\ Follows(variant, dl) ->
              /\ dl' = [dl EXCEPT !.url = r.to,
                                  !.hops = IF variant = "part_001b" THEN @ + 1 ELSE @]
              /\ Goto(pc)
              /\ UNCHANGED << fs, products, idx, cur, writeLog, matLog, net, open >>
         [] OTHER -> Reject(fs, dl.existed)
    /\ UNCHANGED << variant, text, fs0, listingMap, shopPage, listingUrls, scrapeLog,
                    discovery, dupSeen >>

\* stream.close(cb): the file is closed, then the promise resolves
FileClosed ==
    /\ dl.stage = "written"
    /\ Settle(dl.dest, fs, open \ { FileHandle(dl.dest) }, TRUE, dl.existed)
    /\ UNCHANGED << variant, text, fs0, listingMap, shopPage, listingUrls, scrapeLog,
                    discovery, dupSeen >>

\* part_001a: the stream that has finished closes itself, some time later
AutoClose ==
    /\ variant = "part_001a"
    /\ \E h \in open :
          /\ h.kind = "file"
          /\ h.file \notin fs.empty
          /\ dl.dest # h.file
          /\ open' = open \ { h }
    /\ UNCHANGED << variant, text, net, pipelineButOpen >>

\* the image loop that runs before products.json is over
ImagesDone ==
    /\ pc = "images"
    /\ idx > Len(products)
    /\ Goto("json")
    /\ idx' = 1
    /\ UNCHANGED << net, open >>
    /\ UNCHANGED << variant, text, fs, fs0, writeLog, listingMap, shopPage, listingUrls,
                    products, cur, dl, matLog, scrapeLog, discovery, dupSeen >>

(* ------------------------------- writing ------------------------------- *)

\* data/products.json is written
WriteJson ==
    /\ pc = "json"
    /\ products' = ListForJson(variant, products)
    /\ fs' = [fs EXCEPT !.json = products', !.hasJson = TRUE]
    /\ writeLog' = Append(writeLog, FileName("products.json"))
    /\ idx' = 1
    /\ Goto(IF PageLoopImage(variant) THEN "page_img" ELSE "pages")
    /\ UNCHANGED << net, open >>
    /\ UNCHANGED << variant, text, fs0, listingMap, shopPage, listingUrls, cur, dl,
                    matLog, scrapeLog, discovery, dupSeen >>

\* the product pages, where no await sits inside the page loop
WritePages ==
    /\ pc = "pages"
    /\ fs' = [fs EXCEPT !.pages = WriteAllPages(variant, fs.pages, products)]
    /\ writeLog' = writeLog \o [k \in 1 .. Len(products) |-> PageName(products[k])]
    /\ Goto("tail")
    /\ UNCHANGED << net, open >>
    /\ UNCHANGED << variant, text, fs0, listingMap, shopPage, listingUrls, products, idx,
                    cur, dl, matLog, scrapeLog, discovery, dupSeen >>

\* category, shop and home pages, the sitemap, the completion banner
Finish ==
    /\ \/ pc = "tail"
       \/ pc = "page_img" /\ idx > Len(products)
    /\ fs' = [fs EXCEPT !.static = @ \cup Range(StaticFiles(variant)),
                        !.cards = CategoryCards(variant, products, @),
                        !.locs = SitemapStatic(variant),
                        !.sitemap = [k \in 1 .. Len(products) |-> products[k].slug]]
    /\ writeLog' = writeLog \o [k \in 1 .. Len(StaticFiles(variant)) |->
                                   FileName(StaticFiles(variant)[k])]
    /\ pc' = "done"
    /\ log' = Append(log, "complete")
    /\ exitCode' = "0"
    /\ UNCHANGED << net, open >>
    /\ UNCHANGED << variant, text, fs0, listingMap, shopPage, listingUrls, products, idx,
                    cur, dl, matLog, scrapeLog, discovery, dupSeen, cause, thrown >>

Next ==
    \/ Start
    \/ Discover
    \/ ShopPage
    \/ ScrapeFail
    \/ ExtractFail
    \/ ScrapeOk
    \/ ScrapeDone
    \/ Materialize
    \/ Response
    \/ FileClosed
    \/ AutoClose
    \/ ImagesDone
    \/ WriteJson
    \/ WritePages
    \/ Finish

Spec == Init /\ [][Next]_vars

\* the event loop runs every callback that is ready
LiveSpec == Init /\ [][Next]_vars /\ WF_vars(Next)

(* ---------------------- the string functions alone -------------------- *)

\* what a title, a description or a link path is made of
Atoms == { "flag", "Flag", "pattern", "Seamless", "7", " ", "&", "<", "\"" }

Titles == SeqsUpTo(Atoms, MaxTitleLen)

\* the descriptions the string functions are tried on
Descriptions == { << >>, << "flag" >>, << "pattern" >>, << "Seamless" >> }

\* numeric listing ids, as the digits matched by /listing\/(\d+)/
Ids == { << "7" >>, << "1", "7" >> }

\* titles of feed items, with and without the shop name at the end
ItemBases ==
    { << >>, << "Flag" >>, << "Flag", " ", "pattern" >>, << "&amp;", " ", "Flag" >> }
ShopSuffixes ==
    { << >>, << " ", "by", " ", "TheCharmedCardinal" >>,
      << " ", "by", " ", "thecharmedcardinal" >> }
ItemTitles == { b \o x : b \in ItemBases, x \in ShopSuffixes }

\* descriptions of feed items: html, entities and text
HtmlAtoms == { "<p>", "</p>", "<br>", "flag", "&lt;", "&gt;" }
ItemDescriptions == SeqsUpTo(HtmlAtoms, MaxHtmlLen)

\* descriptions to clamp: white space, a run of characters, a gap, a run
Run(n) == [i \in 1 .. n |-> "x"]
Spaces(n) == [i \in 1 .. n |-> " "]
RunLens == { 0, 3, 40, 60, MaxRun }
LongDescriptions ==
    { Spaces(l) \o Run(a) \o Spaces(g) \o Run(b) :
        l \in 0 .. 1, a \in RunLens, g \in 0 .. 2, b \in RunLens }

\* a disk with nothing on it
EmptyDisk ==
    [ json |-> << >>, hasJson |-> FALSE, pages |-> {}, legacy |-> {}, images |-> {},
      empty |-> {}, static |-> {}, cards |-> NoCards, locs |-> << >>, sitemap |-> << >> ]

\* the string functions on their own, outside any build
TextInit ==
    /\ variant \in Variants
    /\ text = NoText
    /\ pc = "text"
    /\ fs = EmptyDisk
    /\ fs0 = EmptyDisk
    /\ writeLog = << >>
    /\ listingMap = << >>
    /\ shopPage = 1
    /\ listingUrls = << >>
    /\ products = << >>
    /\ idx = 1
    /\ cur = NoProduct
    /\ dl = NoDl
    /\ matLog = << >>
    /\ scrapeLog = << >>
    /\ discovery = "none"
    /\ dupSeen = FALSE
    /\ cause = "none"
    /\ thrown = FALSE
    /\ log = << >>
    /\ exitCode = "running"
    /\ net = {}
    /\ open = {}

\* the slug of one listing is derived
DeriveSlug ==
    /\ pc = "text"
    /\ text = NoText
    /\ \E title \in Titles, id \in Ids :
          text' = [NoText EXCEPT !.fn = "slug", !.title = title, !.id = id,
                                 !.slug = slugFromTitleAndId(variant, title, id)]
    /\ UNCHANGED << variant, pipeline >>

\* the type of one product is inferred
InferType ==
    /\ pc = "text"
    /\ text = NoText
    /\ \E title \in Titles, desc \in Descriptions :
          text' = [NoText EXCEPT !.fn = "type", !.title = title, !.desc = desc,
                                 !.type = inferType(variant, title, desc)]
    /\ UNCHANGED << variant, pipeline >>

\* the page of one product is rendered
RenderPage ==
    /\ pc = "text"
    /\ text = NoText
    /\ \E title \in Titles, id \in Ids :
          text' = [NoText EXCEPT !.fn = "page", !.title = title, !.id = id,
                                 !.page = renderProductPage(variant, title,
                                                            LinkOf(id, << >>))]
    /\ UNCHANGED << variant, pipeline >>

\* one feed item is made into a product
ProductFromItem ==
    /\ pc = "text"
    /\ text = NoText
    /\ RssOnly(variant)
    /\ \E raw \in ItemTitles, html \in ItemDescriptions, id \in Ids :
          LET title == ItemTitle(variant, raw)
              description == ItemDescription(variant, title, html)
          IN  text' = [NoText EXCEPT !.fn = "item", !.title = raw, !.desc = html,
                                     !.id = id, !.name = title, !.body = description,
                                     !.type = inferType(variant, title, description),
                                     !.slug = slugFromTitleAndId(variant, title, id)]
    /\ UNCHANGED << variant, pipeline >>

\* the description of one product is clamped for a card or a meta tag
ClampDescription ==
    /\ pc = "text"
    /\ text = NoText
    /\ Clamps(variant)
    /\ \E description \in LongDescriptions, maxLen \in ClampLimits(variant) :
          text' = [NoText EXCEPT !.fn = "clamp", !.desc = description, !.max = maxLen,
                                 !.body = clamp(variant, description, maxLen)]
    /\ UNCHANGED << variant, pipeline >>

TextNext ==
    \/ ProductFromItem
    \/ ClampDescription
    \/ DeriveSlug
    \/ InferType
    \/ RenderPage

TextSpec == TextInit /\ [][TextNext]_vars

(* ------------------------------ properties ----------------------------- *)

\* the slug of the product a listing URL yields
SlugOfUrl(u) == Slug(variant, u)

PageFile(slug) == [file |-> "page", slug |-> slug]

\* C1: a per-listing scrape failure is caught at that listing: once the build
\* has ended without any other kind of fatal error, every listing whose scrape
\* failed is absent from products.json and every listing whose scrape
\* succeeded has had its product page written.
C1_ScrapeFailureIsolated ==
    (pc = "done" /\ cause \in { "none", "scrape" }) =>
        \A k \in 1 .. Len(scrapeLog) :
            IF scrapeLog[k].ok
            THEN PageFile(SlugOfUrl(scrapeLog[k].url)) \in Range(writeLog)
            ELSE \/ \E j \in 1 .. Len(scrapeLog) :
                        /\ scrapeLog[j].ok
                        /\ SlugOfUrl(scrapeLog[j].url) = SlugOfUrl(scrapeLog[k].url)
                 \/ \A j \in 1 .. Len(fs.json) :
                        fs.json[j].slug # SlugOfUrl(scrapeLog[k].url)

\* C2: a build that ends with an empty product list (no listing discovered, or
\* every scrape failed) has aborted with a fatal error and has written neither
\* products.json nor any page; it never completes with zero products.
C2_NoBuildWithZeroProducts ==
    (pc = "done" /\ products = << >>) => (thrown /\ writeLog = << >>)

\* C3: a build ends in exactly one of two ways: a fatal error is logged once at
\* the top level and the process exits non-zero, or the completion banner is
\* logged and the process exits zero.
C3_FatalOrComplete ==
    pc = "done" =>
        IF thrown
        THEN log = << "failed" >> /\ exitCode = "1"
        ELSE log = << "complete" >> /\ exitCode = "0"

\* C4: when the discovery fetch fails (non-2xx status, network error, failed
\* navigation), discovery rejects, the build aborts, and the disk is exactly as
\* it was before the build started.
C4_DiscoveryFailureLeavesDisk ==
    discovery \in { "status", "neterr", "navfail" } =>
        (pc = "done" /\ thrown /\ fs = fs0)

\* C5: a failed image download, or a product without a remote image URL, never
\* propagates to the top level: a build that met no discovery or scrape error
\* writes the page of every product and completes.
C5_ImageFailureHandled ==
    (pc = "done" /\ cause \notin { "discovery", "empty", "scrape" }) =>
        /\ ~thrown
        /\ \A k \in 1 .. Len(products) : PageName(products[k]) \in Range(writeLog)

\* C6: when the local image file of a product already exists, materialising the
\* product's image makes no network request and returns that file.
C6_CacheHitMakesNoRequest ==
    \A k \in 1 .. Len(matLog) :
        matLog[k].existed =>
            /\ ~matLog[k].requested
            /\ matLog[k].result # NoFile
            /\ matLog[k].result.slug = matLog[k].slug

\* C7: every response to a download is treated as follows: a 3xx with a
\* Location header re-issues the download against that location with the same
\* destination; a response that is neither 2xx nor such a redirect rejects;
\* only a successful response puts the body in the destination file.
C7_DownloadResponse ==
    [][ dl # NoDl =>
          LET r == Site(dl.url) IN
          CASE r.kind = "redirect" ->
                 /\ dl' # NoDl
                 /\ dl'.url = r.to
                 /\ dl'.dest = dl.dest
                 /\ fs'.images = fs.images
            [] r.kind = "ok" ->
                 /\ dl' = NoDl
                 /\ dl.dest \in fs'.images
                 /\ dl.dest \notin fs'.empty
            [] OTHER ->
                 /\ dl' = NoDl
                 /\ fs'.images = fs.images
                 /\ (thrown' \/ matLog'[Len(matLog')].result = NoFile)
      ]_vars

\* C8: the image materialiser always returns: a download that has been started
\* eventually settles, as a local file or as null.
C8_MaterializerReturns == (dl # NoDl) ~> (dl = NoDl)

\* the listings that became products, in the order discovery returned them
C9_Kept ==
    IF RssOnly(variant)
    THEN [k \in 1 .. Len(listingUrls) |-> SlugOfUrl(listingUrls[k])]
    ELSE LET ok == SelectSeq(scrapeLog, LAMBDA e : e.ok)
         IN  [k \in 1 .. Len(ok) |-> SlugOfUrl(ok[k].url)]

C9_Scraped == [k \in 1 .. Len(scrapeLog) |-> scrapeLog[k].url]

C9_Materialized == [k \in 1 .. Len(matLog) |-> matLog[k].slug]

C9_Json == [k \in 1 .. Len(fs.json) |-> fs.json[k].slug]

C9_Pages ==
    LET pg == SelectSeq(writeLog, LAMBDA e : e.file = "page")
    IN  [k \in 1 .. Len(pg) |-> pg[k].slug]

C9_Count(s, x) == Cardinality({ k \in 1 .. Len(s) : s[k] = x })

\* C9 as stated: in a completed build the products are scraped, materialised,
\* written to products.json, rendered and listed in the sitemap in the order
\* in which discovery returned their listings.
C9_DiscoveryOrderEverywhere ==
    (pc = "done" /\ ~thrown) =>
        /\ (~RssOnly(variant) => C9_Scraped = listingUrls)
        /\ C9_Materialized = C9_Kept
        /\ C9_Json = C9_Kept
        /\ C9_Pages = C9_Kept
        /\ fs.sitemap = C9_Kept

\* C9: in a completed build the products are scraped and materialised in
\* discovery order; products.json, the pages and the sitemap all list them in
\* one order, which is discovery order except in the rss-parser script
\* (part_000), where it is the same products sorted by title.
C9_DiscoveryOrderUnlessSorted ==
    (pc = "done" /\ ~thrown) =>
        /\ (~RssOnly(variant) => C9_Scraped = listingUrls)
        /\ C9_Materialized = C9_Kept
        /\ C9_Pages = C9_Json
        /\ fs.sitemap = C9_Json
        /\ IF variant = "part_000"
           THEN /\ Len(C9_Json) = Len(C9_Kept)
                /\ \A k \in 1 .. Len(C9_Kept) :
                      C9_Count(C9_Json, C9_Kept[k]) = C9_Count(C9_Kept, C9_Kept[k])
                /\ \A i, j \in 1 .. Len(fs.json) :
                      i < j => TitleRank(fs.json[i].title) <= TitleRank(fs.json[j].title)
           ELSE C9_Json = C9_Kept

\* a completed part_000 build whose feed was not in title order
C9_SortedBuildReached ==
    /\ pc = "done"
    /\ ~thrown
    /\ variant = "part_000"
    /\ Len(fs.json) = 2
    /\ C9_Json # C9_Kept

C11_SlugChars ==
    { "flag", "pattern", "seamless", "product", "by", "thecharmedcardinal", "ref",
      "1", "7", "-" }

C11_WellFormed ==
    /\ text.slug # << >>
    /\ \A k \in 1 .. Len(text.slug) : text.slug[k] \in C11_SlugChars

C11_EndsWithId ==
    /\ Len(text.slug) >= Len(text.id)
    /\ SubSeq(text.slug, Len(text.slug) - Len(text.id) + 1, Len(text.slug)) = text.id

C11_BeginsWithId ==
    /\ Len(text.slug) >= Len(text.id)
    /\ SubSeq(text.slug, 1, Len(text.id)) = text.id

C12_SlugsUnique ==
    /\ \A i, j \in 1 .. Len(products) :
          i < j => products[i].slug # products[j].slug
    /\ \A i, j \in 1 .. Len(writeLog) :
          (i < j /\ writeLog[i].file = "page") => writeLog[i] # writeLog[j]

\* the title or the description names a seamless design or a pattern
C13_NamesPattern ==
    \E k \in 1 .. Len(text.title \o text.desc) :
        (text.title \o text.desc)[k] \in { "pattern", "seamless", "Seamless" }

\* C13: every product's type is garden-flag or digital-pattern, and it is
\* digital-pattern exactly when the title or the description contains
\* "seamless" or "pattern".
C13_TypeFromKeywords ==
    text.fn = "type" =>
        text.type = (IF C13_NamesPattern THEN "digital-pattern" ELSE "garden-flag")

\* C14: after a successful build every product record of products.json has
\* exactly one product entry in sitemap.xml, <domain>/products/<slug>.html,
\* and every product entry of the sitemap is the page of a record.
C14_SitemapMatchesJson ==
    (pc = "done" /\ ~thrown) =>
        /\ \A k \in 1 .. Len(fs.json) :
              Cardinality({ j \in 1 .. Len(fs.sitemap) :
                              fs.sitemap[j] = fs.json[k].slug }) = 1
        /\ \A j \in 1 .. Len(fs.sitemap) :
              \E k \in 1 .. Len(fs.json) : fs.json[k].slug = fs.sitemap[j]

\* C15: every scraped string inserted into a rendered page has passed through
\* HTML escaping: no insertion, in element content, in an attribute value or
\* in the structured-data script block, holds a raw <, >, & or ".
C15_ScrapedTextEscaped ==
    text.fn = "page" =>
        \A k \in 1 .. Len(text.page) :
            \A j \in 1 .. Len(text.page[k].text) :
                text.page[k].text[j] \notin { "<", ">", "&", "\"" }

C16_Snapshot == FileName("products.json") \in Range(writeLog)

C16_ImageSettled(p) == \E j \in 1 .. Len(matLog) : matLog[j].slug = p.slug

C16_AllMaterialized == \A k \in 1 .. Len(products) : C16_ImageSettled(products[k])

C16_PagesAfterImage ==
    \A k \in 1 .. Len(products) :
        PageName(products[k]) \in Range(writeLog) => C16_ImageSettled(products[k])

C16_Frozen == C16_Snapshot => (products' = products /\ scrapeLog' = scrapeLog)

\* C16 as stated: products.json is written only after the image of every
\* product has been materialised, and after it is written no product is
\* constructed, changed or removed.
C16_SnapshotAfterImages ==
    /\ [](C16_Snapshot => C16_AllMaterialized)
    /\ [][C16_Frozen]_vars

\* C16, amended: after products.json is written no product is constructed,
\* changed or removed, and a product's page is written only after its image
\* has been materialised. The scripts that materialise in a loop of their own
\* write products.json after every image; build.js (1-931), part_002
\* (406-730) and part_004 write products.json first and materialise each
\* image in the page loop.
C16_Lifecycle ==
    /\ [](/\ C16_PagesAfterImage
          /\ (C16_Snapshot /\ ~PageLoopImage(variant)) => C16_AllMaterialized
          /\ (PageLoopImage(variant) /\ matLog # << >>) => C16_Snapshot)
    /\ [][C16_Frozen]_vars

\* products.json is on disk, one image is materialised, the next is not
C16_SnapshotBeforeImages ==
    /\ PageLoopImage(variant)
    /\ C16_Snapshot
    /\ Len(products) = 2
    /\ Len(matLog) = 1
    /\ ~C16_ImageSettled(products[2])

C17_LastResult(slug) ==
    LET ks == { k \in 1 .. Len(matLog) : matLog[k].slug = slug }
    IN  IF ks = {} THEN NoFile
        ELSE matLog[CHOOSE k \in ks : \A j \in ks : j <= k].result

\* C17: the image path of every page this build has written is the local
\* file the materialisation of that product produced, and the placeholder
\* when it produced none; no page names assets/products/<slug>.<ext> for an
\* image that was not downloaded.
C17_PageImageIsMaterialized ==
    \A q \in fs.pages :
        PageFile(q.slug) \in Range(writeLog) =>
            /\ q.img = C17_LastResult(q.slug)
            /\ q.img # NoFile => q.img \in fs.images

C18_Built == pc = "done" /\ ~thrown /\ FileName("garden-flags") \in Range(writeLog)

C18_Records(slug) == Cardinality({ k \in 1 .. Len(products) : products[k].slug = slug })

C19_PageAt(loc) ==
    CASE loc \in { "", "index.html" } -> "index"
      [] loc = "shop.html" -> "shop"
      [] loc = "blog/" -> "blog"
      [] loc = "products/garden-flags.html" -> "garden-flags"
      [] loc = "products/digital-patterns.html" -> "digital-patterns"
      [] OTHER -> "unwritten"

C19_Entries(f) ==
    IF f.file = "page"
    THEN Cardinality({ j \in 1 .. Len(fs.sitemap) : fs.sitemap[j] = f.slug })
    ELSE Cardinality({ j \in 1 .. Len(fs.locs) : C19_PageAt(fs.locs[j]) = f.file })

\* C19: after a successful build sitemap.xml holds exactly one entry for
\* every page the build wrote: each product page, the category pages, the
\* shop page, the home page.
C19_SitemapListsWrittenPages ==
    (pc = "done" /\ ~thrown) =>
        \A f \in Range(writeLog) :
            f.file \notin { "sitemap", "products.json" } => C19_Entries(f) = 1

\* C20: a listing page that arrives with its structured-data block missing
\* or unparsable still yields a product: the scrape of that listing does not
\* fail, the extraction goes on to the next source.
C20_MissingStructuredDataTolerated ==
    \A k \in 1 .. Len(scrapeLog) :
        (/\ scrapeLog[k].why # "fetch"
         /\ LdOf(scrapeLog[k].url) \in { "missing", "unparsable" })
            => scrapeLog[k].ok

C21_Suffixed == text.fn = "item" /\ EndsWithShopName(text.title) /\ Len(text.title) > 4

C21_ShopNameIn(s) ==
    \E k \in 1 .. Len(s) : LowerAtom(s[k]) = "thecharmedcardinal"

\* C21: a feed item whose title ends with " by TheCharmedCardinal" and
\* whose description is html gives a product whose title and slug come from
\* the title without that suffix, the slug ending with the listing id, and
\* whose description holds no tag.
C21_ItemWithShopName ==
    C21_Suffixed =>
        /\ ~C21_ShopNameIn(text.name)
        /\ ~C21_ShopNameIn(text.slug)
        /\ C11_EndsWithId
        /\ \A k \in 1 .. Len(text.body) : ~IsTag(text.body[k])

\* the page loop of the shop discovery goes on to its next page
C23_NextPage == pc = "shop" /\ pc' = "shop" /\ shopPage' # shopPage

\* C23: the shop discovery fetches pages 1, 2, ... in order, never more than
\* MaxPages of them, and goes on to the next page only when the page just
\* read showed a listing id it had not collected yet.
C23_StopsWhenNothingNew ==
    /\ [](shopPage \in 1 .. MaxPages)
    /\ [][C23_NextPage =>
            /\ shopPage' = shopPage + 1
            /\ Len(listingMap') > Len(listingMap)]_vars

\* the extension the claim derives from a remote URL
C24_Ext(u) ==
    IF UrlHas(u, "png") THEN "png"
    ELSE IF UrlHas(u, "webp") THEN "webp"
    ELSE IF UrlHas(u, "jpeg") THEN "jpeg" ELSE "jpg"

\* C24: the local file of a downloaded image is <slug>.<ext>, ext taken
\* from the remote URL (png, else webp, else jpeg, else jpg), and after a
\* successful download that file is on disk: a URL ending in .webp gives
\* assets/products/<slug>.webp.
C24_ExtensionFromUrl ==
    \A k \in 1 .. Len(products) : \A j \in 1 .. Len(matLog) :
        (/\ matLog[j].slug = products[k].slug
         /\ matLog[j].requested
         /\ matLog[j].result # NoFile)
            => /\ matLog[j].result =
                    [slug |-> products[k].slug, ext |-> C24_Ext(products[k].image)]
               /\ matLog[j].result \in fs.images

C25_FilesOf(slug) == { f \in fs.images : f.slug = slug }

\* C25: across builds a product has at most one local image file
\* assets/products/<slug>.<ext>: a build in which the remote URL of a slug
\* has another extension than the file an earlier build left does not leave
\* two image files for that slug.
C25_OneImageFilePerProduct ==
    \A k \in 1 .. Len(products) : Cardinality(C25_FilesOf(products[k].slug)) <= 1

\* a download has just resolved with its file
C22_Resolved ==
    /\ Len(matLog') = Len(matLog) + 1
    /\ matLog'[Len(matLog')].requested
    /\ matLog'[Len(matLog')].result # NoFile

\* C22: a download resolves only after the whole body is in the file and
\* the file has been closed, so that the caller never goes on to the next
\* product while the file is open.
C22_ResolvesAfterClose ==
    [][C22_Resolved =>
          LET f == matLog'[Len(matLog')].result IN
          /\ f \in fs'.images
          /\ f \notin fs'.empty
          /\ FileHandle(f) \notin open']_vars

\* the build has ended, by returning or by a fatal error
C26_Ended == pc = "done"

\* C26: every browser and every page a discovery or scrape call opened is
\* closed when that call has returned or thrown, and none is open once the
\* build has ended, in success or in failure.
C26_BrowsersClosed ==
    /\ C26_Ended => \A r \in open : r.kind \notin { "browser", "page" }
    /\ \A r \in open :
          r.kind = "page" => (r.n = 0 /\ pc = "shop") \/ ListingOp(r.n) \in net

\* C27, the operations in flight
C27_InFlight == Cardinality(net)

\* C27: at every moment of a build at most one network operation is in
\* flight: the next one begins only when the one before has resolved or
\* rejected.
C27_OneOperationAtATime == C27_InFlight <= 1

\* a listing fetch is in flight after an image download of the same build
C27_FetchAfterDownload ==
    /\ matLog # << >>
    /\ \E i \in 1 .. Len(listingUrls) : net = { ListingOp(i) }

\* C29: when no download is under way, every file at an image path is the
\* file of a download that completed, in this build or an earlier one: a
\* failed download leaves nothing at its destination.
C29_NoFileFromFailedDownload ==
    dl = NoDl =>
        \A f \in fs.images :
            \/ f \in fs0.images
            \/ \E j \in 1 .. Len(matLog) :
                  matLog[j].requested /\ matLog[j].result = f

\* the markers a clamp ends a shortened text with
C28_Markers == { << ".", ".", "." >>, << "ellipsis" >> }

\* C28: the clamp with limit maxLen returns the trimmed text unchanged when
\* it has at most maxLen characters, and otherwise a prefix of the text
\* followed by an ellipsis marker, at most maxLen characters in all.
C28_ClampWithinLimit ==
    text.fn = "clamp" =>
        LET t == Trim(text.desc) IN
        IF Len(t) <= text.max THEN text.body = t
        ELSE /\ Len(text.body) <= text.max
             /\ \E k \in 0 .. Len(t), mark \in C28_Markers :
                   text.body = SubSeq(t, 1, k) \o mark

\* the position of sitemap.xml among the files the build has written; 0 when
\* the build has not written it
C30_SitemapAt ==
    LET at == { k \in 1 .. Len(writeLog) : writeLog[k] = FileName("sitemap") }
    IN  IF at = {} THEN 0 ELSE CHOOSE k \in at : \A j \in at : k <= j

C30_WrittenBefore(f) == \E k \in 1 .. C30_SitemapAt - 1 : writeLog[k] = f

\* C30: sitemap.xml is the last file a build writes: every product page,
\* both category pages and the shop page of the run are written before it,
\* every product it lists has a page on disk, and a build that ends in a
\* fatal error has not written it.
C30_SitemapLast ==
    /\ thrown => C30_SitemapAt = 0
    /\ C30_SitemapAt > 0 =>
          /\ C30_SitemapAt = Len(writeLog)
          /\ \A k \in 1 .. Len(products) : C30_WrittenBefore(PageName(products[k]))
          /\ \A n \in { "garden-flags", "digital-patterns", "shop" } :
                C30_WrittenBefore(FileName(n))
          /\ \A k \in 1 .. Len(fs.sitemap) :
                \E q \in fs.pages : q.slug = fs.sitemap[k]

====
